---- MODULE Spec2Model ----
(***************************************************************************)
(* CustomPositionValveWithFanDevice                                        *)
(* (custom_components/dual_smart_thermostat/hvac_device/                   *)
(*  custom_position_valve_with_fan_device.py)                              *)
(*                                                                         *)
(* The device maps the power manager's hvac_power_percent to a valve       *)
(* position and a fan speed and issues two blocking service calls, valve   *)
(* first, then fan.  A coroutine is modelled by its position pc: it        *)
(* suspends only at an await (a service call in flight, or the base        *)
(* class's async_control_hvac), and while it is suspended the rest of the  *)
(* event loop (the environment) may change mode, temperatures, the active  *)
(* flag and the power percent.                                             *)
(*                                                                         *)
(* hvac_power_percent may be an int or a float.  It is modelled as an      *)
(* exact rational n / DemandDen held by its numerator n.  For DemandDen    *)
(* in {1, 2, 4} every value is a binary float and the float arithmetic of  *)
(* lines 138-150 gives the same integer as the exact arithmetic below.     *)
(***************************************************************************)
EXTENDS Integers, Sequences, FiniteSets

\* ---------------------------------------------------------------- bounds
\* hvac_power_percent is held in units of 1/DemandDen percent
DemandDen == 2
\* how far (in percent) out-of-range demand values reach below 0 / above 100
MaxOver == 10

\* ------------------------------------------------- constants of __init__
OFF_POSITION == 55
COOLING_MIN_POSITION == 50
COOLING_MAX_POSITION == 20
HEATING_MIN_POSITION == 60
HEATING_MAX_POSITION == 100

\* Python's None for a temperature or an entity id
None == <<>>

VARIABLES
    valve_entity_id,     \* self.valve_entity_id: None or <<id>>
    fan_entity_id,       \* self.fan_entity_id:   None or <<id>>
    hvac_mode,           \* self.hvac_mode: "off", "heat", "cool"
    is_active,           \* self.is_active
    cur_temp,            \* self.environment.cur_temp: None or <<t>>
    target_temp,         \* getattr(self.environment, self.target_env_attr)
    hvac_power_percent,  \* self.hvac_power.hvac_power_percent (numerator)
    pc,                  \* position of the running coroutine, "idle" if none
    op,                  \* the handler pc belongs to / that ran last
    prev_off,            \* the handler that ran before op was async_turn_off
    prev_cmds,           \* and the service calls it issued, else <<>>
    status,              \* "none", "running", "returned", "raised"
    valve_position,      \* local valve_position of the handler
    fan_speed,           \* local fan_speed of the handler (0 in async_turn_off,
                         \* which passes the literal 0)
    log                  \* what the current (or last) invocation did, in order

vars == <<valve_entity_id, fan_entity_id, hvac_mode, is_active,
          cur_temp, target_temp, hvac_power_percent,
          pc, op, prev_off, prev_cmds, status, valve_position, fan_speed, log>>

ident == <<valve_entity_id, fan_entity_id>>
envir == <<hvac_mode, is_active, cur_temp, target_temp>>

\* ------------------------------------------------------------- value sets
Modes == {"off", "heat", "cool"}
DemandUnit == 100 * DemandDen
\* every demand value of the pure-function checks: -MaxOver% .. (100+MaxOver)%
DemandAll == (0 - MaxOver * DemandDen)..((100 + MaxOver) * DemandDen)
DemandInRange == 0..(100 * DemandDen)
\* the demand values of the handler checks: both out-of-range ends, 0, and
\* one value in range whose interpolated position is not an integer
DemandSome == {0 - MaxOver * DemandDen, 0, 50 * DemandDen + 1,
               (100 + MaxOver) * DemandDen}
CurTemps == {None, <<25>>}
TargetTemps == {None, <<20>>}
ValveIds == {None, <<"valve.v">>}
FanIds == {None, <<"fan.f">>}

\* one entry of log: e names the step, v its number, a its string argument
Ev(e, v, a) == [e |-> e, v |-> v, a |-> a]

Max(a, b) == IF a >= b THEN a ELSE b
Min(a, b) == IF a <= b THEN a ELSE b

\* Python int() of the rational num/den (den > 0): truncation toward zero
IntOf(num, den) == IF num >= 0 THEN num \div den ELSE 0 - ((0 - num) \div den)

\* ------------------------------------------------------ derived properties
\* hvac_action (property)
hvac_action ==
    IF hvac_mode = "off" THEN "off"
    ELSE IF is_active /\ hvac_mode = "heat" THEN "heating"
    ELSE IF is_active /\ hvac_mode = "cool" THEN "cooling"
    ELSE "idle"

\* --------------------------------------------------------- position mapper
\* the COOL branch interpolating from the wrong end of the band
cool_position_inverted(n) ==
    LET position_range == COOLING_MIN_POSITION - COOLING_MAX_POSITION
        num == COOLING_MAX_POSITION * DemandUnit + n * position_range
    IN  Max(COOLING_MAX_POSITION, Min(IntOf(num, DemandUnit), COOLING_MIN_POSITION))

\* the COOL branch returning int(position) without the max/min clamp
cool_position_unclamped(n) ==
    LET position_range == COOLING_MIN_POSITION - COOLING_MAX_POSITION
        num == COOLING_MIN_POSITION * DemandUnit - n * position_range
    IN  IntOf(num, DemandUnit)

\* the COOL branch rounding to the nearest integer (half up) instead of int()
cool_position_rounded(n) ==
    LET position_range == COOLING_MIN_POSITION - COOLING_MAX_POSITION
        num == COOLING_MIN_POSITION * DemandUnit - n * position_range
    IN  Max(COOLING_MAX_POSITION,
            Min(IntOf(2 * num + DemandUnit, 2 * DemandUnit), COOLING_MIN_POSITION))

\* COOL branch: position for hvac_power_percent = n / DemandDen
cool_position(n) ==
    LET position_range == COOLING_MIN_POSITION - COOLING_MAX_POSITION
        \* position = COOLING_MIN_POSITION - (n/DemandUnit) * position_range
        num == COOLING_MIN_POSITION * DemandUnit - n * position_range
    IN  Max(COOLING_MAX_POSITION, Min(IntOf(num, DemandUnit), COOLING_MIN_POSITION))

\* the HEAT branch subtracting the interpolated part instead of adding it
heat_position_inverted(n) ==
    LET position_range == HEATING_MAX_POSITION - HEATING_MIN_POSITION
        num == HEATING_MIN_POSITION * DemandUnit - n * position_range
    IN  Max(HEATING_MIN_POSITION, Min(IntOf(num, DemandUnit), HEATING_MAX_POSITION))

\* the HEAT branch returning int(position) without the max/min clamp
heat_position_unclamped(n) ==
    LET position_range == HEATING_MAX_POSITION - HEATING_MIN_POSITION
        num == HEATING_MIN_POSITION * DemandUnit + n * position_range
    IN  IntOf(num, DemandUnit)

\* HEAT branch
heat_position(n) ==
    LET position_range == HEATING_MAX_POSITION - HEATING_MIN_POSITION
        num == HEATING_MIN_POSITION * DemandUnit + n * position_range
    IN  Max(HEATING_MIN_POSITION, Min(IntOf(num, DemandUnit), HEATING_MAX_POSITION))

\* HvacPowerManager.update_hvac_power(strategy, attr, action): the values it
\* may leave in hvac_power_percent, out of the demand set D of the check
update_hvac_power(D, action) == D

\* _calculate_valve_position without the early return for HVACMode.OFF of
\* lines 119-120: OFF falls through to the final return of line 152
calculate_valve_position_no_off(d) ==
    IF cur_temp = None \/ target_temp = None
    THEN [position |-> OFF_POSITION,
          events |-> <<Ev("read_temps", 0, "environment")>>,
          power |-> hvac_power_percent]
    ELSE [position |-> IF hvac_mode = "cool" THEN cool_position(d)
                       ELSE IF hvac_mode = "heat" THEN heat_position(d)
                       ELSE OFF_POSITION,
          events |-> <<Ev("read_temps", 0, "environment"),
                       Ev("update", 0, hvac_action),
                       Ev("read_power", d, "valve")>>,
          power |-> d]

\* _calculate_valve_position calling update_hvac_power and reading the power
\* percent before the None check of line 126 instead of after it
calculate_valve_position_update_first(d) ==
    IF hvac_mode = "off"
    THEN [position |-> OFF_POSITION, events |-> <<>>,
          power |-> hvac_power_percent]
    ELSE [position |-> IF cur_temp = None \/ target_temp = None
                       THEN OFF_POSITION
                       ELSE IF hvac_mode = "cool" THEN cool_position(d)
                       ELSE IF hvac_mode = "heat" THEN heat_position(d)
                       ELSE OFF_POSITION,
          events |-> <<Ev("read_temps", 0, "environment"),
                       Ev("update", 0, hvac_action),
                       Ev("read_power", d, "valve")>>,
          power |-> d]

\* _calculate_valve_position, where d is the value update_hvac_power leaves
\* in hvac_power_percent if it is called.  position: the value returned;
\* events: the reads and calls made, in order; power: hvac_power_percent
\* afterwards.
calculate_valve_position(d) ==
    IF hvac_mode = "off"
    THEN [position |-> OFF_POSITION, events |-> <<>>,
          power |-> hvac_power_percent]
    ELSE IF cur_temp = None \/ target_temp = None
    THEN [position |-> OFF_POSITION,
          events |-> <<Ev("read_temps", 0, "environment")>>,
          power |-> hvac_power_percent]
    ELSE [position |-> IF hvac_mode = "cool" THEN cool_position(d)
                       ELSE IF hvac_mode = "heat" THEN heat_position(d)
                       ELSE OFF_POSITION,
          events |-> <<Ev("read_temps", 0, "environment"),
                       Ev("update", 0, hvac_action),
                       Ev("read_power", d, "valve")>>,
          power |-> d]

\* _calculate_fan_speed without the HVACMode.OFF branch of lines 156-157
calculate_fan_speed_no_off(p) ==
    [speed |-> p, events |-> <<Ev("read_power", p, "fan")>>]

\* _calculate_fan_speed, with hvac_power_percent = p
calculate_fan_speed(p) ==
    IF hvac_mode = "off"
    THEN [speed |-> 0, events |-> <<>>]
    ELSE [speed |-> p, events |-> <<Ev("read_power", p, "fan")>>]

\* ------------------------------------------------------ actuator commander
\* `except BaseException` in place of `except Exception`
except_BaseException(outcome) == outcome \in {"error", "timeout", "cancelled"}

\* `except Exception` around a service call: a transport error and a timeout
\* (asyncio.TimeoutError) are Exceptions; asyncio.CancelledError is a
\* BaseException and is not caught
except_Exception(outcome) == outcome \in {"error", "timeout"}

\* the service call _async_set_valve_position issues, none without a valve
set_valve_call(position) ==
    IF valve_entity_id # None
    THEN <<Ev("valve_cmd", position, "set_valve_position")>>
    ELSE <<>>

\* _async_set_fan_speed without the speed_percent == 0 branch of line 244
set_fan_call_always_percentage(speed_percent) ==
    IF fan_entity_id # None
    THEN <<Ev("fan_cmd", speed_percent, "set_percentage")>>
    ELSE <<>>

\* the service call _async_set_fan_speed issues, none without a fan
set_fan_call(speed_percent) ==
    IF fan_entity_id # None
    THEN IF speed_percent = 0
         THEN <<Ev("fan_cmd", 0, "turn_off")>>
         ELSE <<Ev("fan_cmd", speed_percent, "set_percentage")>>
    ELSE <<>>

\* outcomes of a blocking service call: it succeeds or the transport raises
Outcomes == {"ok", "error"}
\* and, when the framework interferes, it times out or the task is cancelled
OutcomesCancel == Outcomes \cup {"timeout", "cancelled"}

\* ------------------------------------------------------------------- Init
\* the state after __init__: no handler has run
InitWith(D) ==
    /\ valve_entity_id \in ValveIds
    /\ fan_entity_id \in FanIds
    /\ hvac_mode \in Modes
    /\ is_active \in BOOLEAN
    /\ cur_temp \in CurTemps
    /\ target_temp \in TargetTemps
    /\ hvac_power_percent \in D
    /\ pc = "idle"
    /\ op = "none"
    /\ prev_off = FALSE
    /\ prev_cmds = <<>>
    /\ status = "none"
    /\ valve_position = 0
    /\ fan_speed = 0
    /\ log = <<>>

Init == InitWith(DemandSome)

\* the service calls in a log, in order
Commands(l) == SelectSeq(l, LAMBDA x : x.e \in {"valve_cmd", "fan_cmd"})

\* a handler starts when none is running: it becomes op
Enter(name) ==
    /\ pc = "idle"
    /\ op' = name
    /\ prev_off' = (op = "turn_off" /\ status = "returned")
    /\ prev_cmds' = IF op = "turn_off" /\ status = "returned"
                    THEN Commands(log) ELSE <<>>

\* a handler returns normally
Return ==
    /\ pc' = "idle"
    /\ status' = "returned"

\* an exception leaves the handler
Raise ==
    /\ pc' = "idle"
    /\ status' = "raised"

\* the service call awaited without the try/except around it
ContainedOkOnly(o) == o = "ok"

\* the awaited service call ends with outcome o and the exception, if any,
\* is caught by `except Exception` (lines 225, 266)
Contained(o) == o = "ok" \/ except_Exception(o)

\* ---------------------------------------------------------- async_turn_on
\* async_turn_on with `and` for the `or` of line 172: it returns early only
\* when both ids are None
TurnOnStart_and_guard(D) ==
    /\ Enter("turn_on")
    /\ IF valve_entity_id = None /\ fan_entity_id = None
       THEN /\ log' = <<Ev("warning", 0, "Valve or fan entity ID is None")>>
            /\ Return
            /\ valve_position' = 0
            /\ UNCHANGED hvac_power_percent
       ELSE \E d \in update_hvac_power(D, hvac_action) :
              LET r == calculate_valve_position(d) IN
                /\ valve_position' = r.position
                /\ hvac_power_percent' = r.power
                /\ log' = r.events \o set_valve_call(r.position)
                /\ pc' = "on_valve"
                /\ status' = "running"
    /\ fan_speed' = 0
    /\ UNCHANGED <<ident, envir>>

\* lines 163-178, up to the await of the valve service call
TurnOnStart(D) ==
    /\ Enter("turn_on")
    /\ IF valve_entity_id = None \/ fan_entity_id = None
       THEN /\ log' = <<Ev("warning", 0, "Valve or fan entity ID is None")>>
            /\ Return
            /\ valve_position' = 0
            /\ UNCHANGED hvac_power_percent
       ELSE \E d \in update_hvac_power(D, hvac_action) :
              LET r == calculate_valve_position(d) IN
                /\ valve_position' = r.position
                /\ hvac_power_percent' = r.power
                /\ log' = r.events \o set_valve_call(r.position)
                /\ pc' = "on_valve"
                /\ status' = "running"
    /\ fan_speed' = 0
    /\ UNCHANGED <<ident, envir>>

\* lines 178-182: the valve call ends, the fan speed is computed and the fan
\* service call is issued
TurnOnValveReturn(O) ==
    /\ pc = "on_valve"
    /\ \E o \in O :
         IF Contained(o)
         THEN LET f == calculate_fan_speed(hvac_power_percent) IN
                /\ fan_speed' = f.speed
                /\ log' = log \o <<Ev("valve_ret", 0, o)>> \o f.events
                              \o set_fan_call(f.speed)
                /\ pc' = "on_fan"
                /\ UNCHANGED status
         ELSE /\ log' = log \o <<Ev("valve_ret", 0, o)>>
              /\ Raise
              /\ UNCHANGED fan_speed
    /\ UNCHANGED <<ident, envir, hvac_power_percent, op, prev_off, prev_cmds, valve_position>>

\* line 182: the fan call ends and async_turn_on returns
TurnOnFanReturn(O) ==
    /\ pc = "on_fan"
    /\ \E o \in O :
         /\ log' = log \o <<Ev("fan_ret", 0, o)>>
         /\ IF Contained(o) THEN Return ELSE Raise
    /\ UNCHANGED <<ident, envir, hvac_power_percent, op, prev_off, prev_cmds,
                   valve_position, fan_speed>>

\* --------------------------------------------------------- async_turn_off
\* async_turn_off passing self.hvac_action, as line 133 does, instead of
\* HVACAction.OFF
TurnOffFinish_hvac_action(d, events) ==
    /\ hvac_power_percent' = d
    /\ log' = events \o <<Ev("update", 0, hvac_action)>>
    /\ Return

\* lines 199-201: the power manager is told the action is OFF; d is the
\* value it leaves in hvac_power_percent
TurnOffFinish(d, events) ==
    /\ hvac_power_percent' = d
    /\ log' = events \o <<Ev("update", 0, "off")>>
    /\ Return

\* async_turn_off passing the power percent, not 0, to _async_set_fan_speed
TurnOffFanPart_power(D, events) ==
    IF fan_entity_id # None
    THEN /\ log' = events \o set_fan_call(hvac_power_percent)
         /\ pc' = "off_fan"
         /\ status' = "running"
         /\ UNCHANGED hvac_power_percent
    ELSE \E d \in update_hvac_power(D, "off") : TurnOffFinish(d, events)

\* lines 196-201 after the valve part: the fan call if there is a fan, else
\* the end of the handler
TurnOffFanPart(D, events) ==
    IF fan_entity_id # None
    THEN /\ log' = events \o set_fan_call(0)
         /\ pc' = "off_fan"
         /\ status' = "running"
         /\ UNCHANGED hvac_power_percent
    ELSE \E d \in update_hvac_power(D, "off") : TurnOffFinish(d, events)

\* async_turn_off issuing both service calls at once (asyncio.gather) and
\* awaiting the fan call
TurnOffStart_gather(D) ==
    /\ Enter("turn_off")
    /\ IF valve_entity_id # None /\ fan_entity_id # None
       THEN /\ log' = set_valve_call(OFF_POSITION) \o set_fan_call(0)
            /\ pc' = "off_fan"
            /\ status' = "running"
            /\ UNCHANGED hvac_power_percent
       ELSE IF valve_entity_id # None
       THEN /\ log' = set_valve_call(OFF_POSITION)
            /\ pc' = "off_valve"
            /\ status' = "running"
            /\ UNCHANGED hvac_power_percent
       ELSE TurnOffFanPart(D, <<>>)
    /\ valve_position' = 0
    /\ fan_speed' = 0
    /\ UNCHANGED <<ident, envir>>

\* lines 184-194, up to the first await
TurnOffStart(D) ==
    /\ Enter("turn_off")
    /\ IF valve_entity_id # None
       THEN /\ log' = set_valve_call(OFF_POSITION)
            /\ pc' = "off_valve"
            /\ status' = "running"
            /\ UNCHANGED hvac_power_percent
       ELSE TurnOffFanPart(D, <<>>)
    /\ valve_position' = 0
    /\ fan_speed' = 0
    /\ UNCHANGED <<ident, envir>>

\* lines 194-197: the valve call ends
TurnOffValveReturn(O, D) ==
    /\ pc = "off_valve"
    /\ \E o \in O :
         IF Contained(o)
         THEN TurnOffFanPart(D, log \o <<Ev("valve_ret", 0, o)>>)
         ELSE /\ log' = log \o <<Ev("valve_ret", 0, o)>>
              /\ Raise
              /\ UNCHANGED hvac_power_percent
    /\ UNCHANGED <<ident, envir, op, prev_off, prev_cmds, valve_position, fan_speed>>

\* lines 197-201: the fan call ends
TurnOffFanReturn(O, D) ==
    /\ pc = "off_fan"
    /\ \E o \in O :
         IF Contained(o)
         THEN \E d \in update_hvac_power(D, "off") :
                TurnOffFinish(d, log \o <<Ev("fan_ret", 0, o)>>)
         ELSE /\ log' = log \o <<Ev("fan_ret", 0, o)>>
              /\ Raise
              /\ UNCHANGED hvac_power_percent
    /\ UNCHANGED <<ident, envir, op, prev_off, prev_cmds, valve_position, fan_speed>>

\* ----------------------------------------------------- async_control_hvac
\* lines 274-279: the base class's async_control_hvac is awaited first
ControlStart ==
    /\ Enter("control")
    /\ log' = <<Ev("base_call", 0, "async_control_hvac")>>
    /\ pc' = "cc_base"
    /\ status' = "running"
    /\ valve_position' = 0
    /\ fan_speed' = 0
    /\ UNCHANGED <<ident, envir, hvac_power_percent>>

\* line 287: the fan call if there is a fan, else the end of the handler
ControlFanPart(events, speed) ==
    IF fan_entity_id # None
    THEN /\ log' = events \o set_fan_call(speed)
         /\ pc' = "cc_fan"
         /\ UNCHANGED status
    ELSE /\ log' = events
         /\ Return

\* async_control_hvac testing `self.is_active` alone at line 282
ControlBaseReturn_active_only(D) ==
    /\ pc = "cc_base"
    /\ IF is_active
       THEN \E d \in update_hvac_power(D, hvac_action) :
              LET r == calculate_valve_position(d)
                  f == calculate_fan_speed(r.power)
                  events == log \o <<Ev("base_ret", 0, "ok")>>
                                \o r.events \o f.events
              IN  /\ valve_position' = r.position
                  /\ fan_speed' = f.speed
                  /\ hvac_power_percent' = r.power
                  /\ IF valve_entity_id # None
                     THEN /\ log' = events \o set_valve_call(r.position)
                          /\ pc' = "cc_valve"
                          /\ UNCHANGED status
                     ELSE ControlFanPart(events, f.speed)
       ELSE /\ log' = log \o <<Ev("base_ret", 0, "ok")>>
            /\ Return
            /\ UNCHANGED <<hvac_power_percent, valve_position, fan_speed>>
    /\ UNCHANGED <<ident, envir, op, prev_off, prev_cmds>>

\* lines 279-286: the base returns; when the device is active and the mode
\* is not OFF both values are computed, then the valve call is issued
ControlBaseReturn(D) ==
    /\ pc = "cc_base"
    /\ IF is_active /\ hvac_mode # "off"
       THEN \E d \in update_hvac_power(D, hvac_action) :
              LET r == calculate_valve_position(d)
                  f == calculate_fan_speed(r.power)
                  events == log \o <<Ev("base_ret", 0, "ok")>>
                                \o r.events \o f.events
              IN  /\ valve_position' = r.position
                  /\ fan_speed' = f.speed
                  /\ hvac_power_percent' = r.power
                  /\ IF valve_entity_id # None
                     THEN /\ log' = events \o set_valve_call(r.position)
                          /\ pc' = "cc_valve"
                          /\ UNCHANGED status
                     ELSE ControlFanPart(events, f.speed)
       ELSE /\ log' = log \o <<Ev("base_ret", 0, "ok")>>
            /\ Return
            /\ UNCHANGED <<hvac_power_percent, valve_position, fan_speed>>
    /\ UNCHANGED <<ident, envir, op, prev_off, prev_cmds>>

\* lines 286-287: the valve call ends
ControlValveReturn(O) ==
    /\ pc = "cc_valve"
    /\ \E o \in O :
         IF Contained(o)
         THEN ControlFanPart(log \o <<Ev("valve_ret", 0, o)>>, fan_speed)
         ELSE /\ log' = log \o <<Ev("valve_ret", 0, o)>>
              /\ Raise
    /\ UNCHANGED <<ident, envir, hvac_power_percent, op, prev_off, prev_cmds,
                   valve_position, fan_speed>>

\* _async_set_fan_speed issuing the service call again after a failure
ControlFanReturn_retry(O) ==
    /\ pc = "cc_fan"
    /\ \E o \in O :
         IF o = "ok"
         THEN /\ log' = log \o <<Ev("fan_ret", 0, o)>>
              /\ Return
         ELSE /\ log' = log \o <<Ev("fan_ret", 0, o)>> \o set_fan_call(fan_speed)
              /\ UNCHANGED <<pc, status>>
    /\ UNCHANGED <<ident, envir, hvac_power_percent, op, prev_off, prev_cmds,
                   valve_position, fan_speed>>

\* line 287: the fan call ends and async_control_hvac returns
ControlFanReturn(O) ==
    /\ pc = "cc_fan"
    /\ \E o \in O :
         /\ log' = log \o <<Ev("fan_ret", 0, o)>>
         /\ IF Contained(o) THEN Return ELSE Raise
    /\ UNCHANGED <<ident, envir, hvac_power_percent, op, prev_off, prev_cmds,
                   valve_position, fan_speed>>

\* ------------------------------------------------------------ environment
\* the rest of the event loop, which runs between handlers and while a
\* handler is suspended in an await
invocation == <<pc, op, prev_off, prev_cmds, status, valve_position, fan_speed, log>>

\* the thermostat sets another mode
EnvSetMode ==
    /\ \E m \in Modes \ {hvac_mode} : hvac_mode' = m
    /\ UNCHANGED <<ident, is_active, cur_temp, target_temp,
                   hvac_power_percent, invocation>>

\* the controlled entity turns on or off
EnvSetActive ==
    /\ is_active' = ~is_active
    /\ UNCHANGED <<ident, hvac_mode, cur_temp, target_temp,
                   hvac_power_percent, invocation>>

\* a sensor reading or a setpoint arrives or becomes unavailable
EnvSetTemps ==
    /\ \E c \in CurTemps, t \in TargetTemps :
         /\ <<c, t>> # <<cur_temp, target_temp>>
         /\ cur_temp' = c
         /\ target_temp' = t
    /\ UNCHANGED <<ident, hvac_mode, is_active, hvac_power_percent, invocation>>

\* another holder of the power manager calls update_hvac_power
EnvUpdatePower(D) ==
    /\ \E d \in update_hvac_power(D, hvac_action) \ {hvac_power_percent} :
         hvac_power_percent' = d
    /\ UNCHANGED <<ident, envir, invocation>>

\* ---------------------------------------------------------- specification
Handlers(O, D) ==
    \/ TurnOnStart(D)
    \/ TurnOnValveReturn(O)
    \/ TurnOnFanReturn(O)
    \/ TurnOffStart(D)
    \/ TurnOffValveReturn(O, D)
    \/ TurnOffFanReturn(O, D)
    \/ ControlStart
    \/ ControlBaseReturn(D)
    \/ ControlValveReturn(O)
    \/ ControlFanReturn(O)

Environment(D) ==
    \/ EnvSetMode
    \/ EnvSetActive
    \/ EnvSetTemps
    \/ EnvUpdatePower(D)

Next == Handlers(Outcomes, DemandSome) \/ Environment(DemandSome)

Spec == Init /\ [][Next]_vars

\* the framework may also time a service call out or cancel the task
NextCancel == Handlers(OutcomesCancel, DemandSome) \/ Environment(DemandSome)

SpecCancel == Init /\ [][NextCancel]_vars

\* the handlers one after another while nothing else runs: mode, active flag
\* and temperatures stay as they are and update_hvac_power finds the same
\* demand each time
NextSame ==
    \/ TurnOnStart({hvac_power_percent})
    \/ TurnOnValveReturn(Outcomes)
    \/ TurnOnFanReturn(Outcomes)
    \/ TurnOffStart({hvac_power_percent})
    \/ TurnOffValveReturn(Outcomes, {hvac_power_percent})
    \/ TurnOffFanReturn(Outcomes, {hvac_power_percent})
    \/ ControlStart
    \/ ControlBaseReturn({hvac_power_percent})
    \/ ControlValveReturn(Outcomes)
    \/ ControlFanReturn(Outcomes)

SpecSame == Init /\ [][NextSame]_vars

\* ------------------------------------------- the position mapper by itself
\* the two computations of lines 177 and 181 applied to every demand value,
\* with no service call and no environment step in between
MapValve(D) ==
    /\ pc = "idle"
    /\ op = "none"
    /\ \E d \in update_hvac_power(D, hvac_action) :
         LET r == calculate_valve_position(d) IN
           /\ valve_position' = r.position
           /\ hvac_power_percent' = r.power
           /\ log' = r.events
    /\ pc' = "map_valve"
    /\ op' = "map"
    /\ status' = "running"
    /\ UNCHANGED <<ident, envir, prev_off, prev_cmds, fan_speed>>

MapFan ==
    /\ pc = "map_valve"
    /\ LET f == calculate_fan_speed(hvac_power_percent) IN
         /\ fan_speed' = f.speed
         /\ log' = log \o f.events
    /\ pc' = "mapped"
    /\ status' = "returned"
    /\ UNCHANGED <<ident, envir, hvac_power_percent, op, prev_off, prev_cmds,
                   valve_position>>

InitMap ==
    /\ InitWith(DemandAll)
    /\ valve_entity_id # None
    /\ fan_entity_id # None

NextMap == MapValve(DemandAll) \/ MapFan

SpecMap == InitMap /\ [][NextMap]_vars

\* ================================================================= claims
\* the position mapper has computed the valve position in the state shown
Mapped == pc \in {"map_valve", "mapped"}
TempsAvailable == cur_temp # None /\ target_temp # None
HasEvent(l, e) == \E i \in 1..Len(l) : l[i].e = e

\* C1: in COOL mode with temperatures available, for every demand percent in
\* [0,100] the computed valve position lies in [20,50], no larger demand
\* gives a larger position, demand 0 gives 50 and demand 100 gives 20.
C1_CoolBandMonotone ==
    (Mapped /\ hvac_mode = "cool" /\ TempsAvailable
        /\ hvac_power_percent \in DemandInRange)
    => /\ valve_position \in 20..50
       /\ \A d2 \in DemandInRange :
            d2 >= hvac_power_percent => cool_position(d2) <= valve_position
       /\ hvac_power_percent = 0 => valve_position = 50
       /\ hvac_power_percent = 100 * DemandDen => valve_position = 20

\* COOL at 50% demand has been mapped to 35
C1_Witness ==
    /\ pc = "mapped" /\ hvac_mode = "cool" /\ TempsAvailable
    /\ hvac_power_percent = 50 * DemandDen
    /\ valve_position = 35

\* C2: in HEAT mode with temperatures available, for every demand percent in
\* [0,100] the computed valve position lies in [60,100], no larger demand
\* gives a smaller position, demand 0 gives 60 and demand 100 gives 100.
C2_HeatBandMonotone ==
    (Mapped /\ hvac_mode = "heat" /\ TempsAvailable
        /\ hvac_power_percent \in DemandInRange)
    => /\ valve_position \in 60..100
       /\ \A d2 \in DemandInRange :
            d2 >= hvac_power_percent => heat_position(d2) >= valve_position
       /\ hvac_power_percent = 0 => valve_position = 60
       /\ hvac_power_percent = 100 * DemandDen => valve_position = 100

\* HEAT at 50% demand has been mapped to 80
C2_Witness ==
    /\ pc = "mapped" /\ hvac_mode = "heat" /\ TempsAvailable
    /\ hvac_power_percent = 50 * DemandDen
    /\ valve_position = 80

\* C3: in OFF mode the computed valve position is exactly 55 for every
\* demand value, out-of-range ones included, and the computation reads no
\* temperature and calls no update_hvac_power.
C3_OffPosition ==
    (pc = "map_valve" /\ hvac_mode = "off")
    => /\ valve_position = 55
       /\ ~HasEvent(log, "read_temps")
       /\ ~HasEvent(log, "update")
       /\ ~HasEvent(log, "read_power")

\* OFF has been mapped with an out-of-range demand and temperatures at hand
C3_Witness ==
    /\ pc = "map_valve" /\ hvac_mode = "off" /\ TempsAvailable
    /\ hvac_power_percent > 100 * DemandDen
    /\ valve_position = 55

\* C4: the computed fan speed is the demand percent unchanged in HEAT and
\* COOL and exactly 0 in OFF, for every demand value.
C4_FanSpeed ==
    pc = "mapped"
    => /\ hvac_mode \in {"heat", "cool"} => fan_speed = hvac_power_percent
       /\ hvac_mode = "off" => fan_speed = 0

\* OFF with a non-zero demand has been mapped to fan speed 0
C4_Witness ==
    /\ pc = "mapped" /\ hvac_mode = "off"
    /\ hvac_power_percent # 0
    /\ fan_speed = 0

\* C5: for a demand percent below 0 or above 100 the computed valve position
\* is still inside the band of the mode: [20,50] in COOL, [60,100] in HEAT.
C5_OutOfRangeClamped ==
    (Mapped /\ TempsAvailable /\ hvac_power_percent \notin DemandInRange)
    => /\ hvac_mode = "cool" => valve_position \in 20..50
       /\ hvac_mode = "heat" => valve_position \in 60..100

\* COOL with a demand above 100% has been mapped to the band's end 20
C5_Witness ==
    /\ Mapped /\ TempsAvailable /\ hvac_mode = "cool"
    /\ hvac_power_percent > 100 * DemandDen
    /\ valve_position = 20

\* the handler is suspended in the fan service call
FanInFlight == pc \in {"on_fan", "off_fan", "cc_fan"}
\* the handler is suspended in the valve service call
ValveInFlight == pc \in {"on_valve", "off_valve", "cc_valve"}
BothIds == valve_entity_id # None /\ fan_entity_id # None

\* C6: no fan 'set_percentage' call carries 0: a fan speed of 0 (mode OFF,
\* async_turn_off, or a demand of exactly 0 in HEAT/COOL) goes out as
\* 'turn_off', any other fan speed as 'set_percentage' with that speed.
C6_FanOffNotPercentZero ==
    /\ FanInFlight => HasEvent(log, "fan_cmd")
    /\ \A i \in 1..Len(log) :
         log[i].e = "fan_cmd"
         => /\ ~(log[i].a = "set_percentage" /\ log[i].v = 0)
            /\ fan_speed = 0 => log[i].a = "turn_off"
            /\ fan_speed # 0 => log[i].a = "set_percentage" /\ log[i].v = fan_speed

\* async_turn_on read a demand of exactly 0 outside OFF and sent 'turn_off'
C6_Witness ==
    /\ op = "turn_on"
    /\ \E i \in 1..Len(log) : log[i] = Ev("read_power", 0, "fan")
    /\ \E i \in 1..Len(log) : log[i] = Ev("fan_cmd", 0, "turn_off")

\* what async_turn_off sends when both ids are present
OffCommands == <<Ev("valve_cmd", 55, "set_valve_position"),
                 Ev("fan_cmd", 0, "turn_off")>>

\* C7: async_turn_off is idempotent: with both ids present it never raises,
\* it ends with the valve sent to 55 and the fan sent 'turn_off', and run
\* right after an async_turn_off it ends with the same commands as that one.
C7_TurnOffIdempotent ==
    (op = "turn_off" /\ BothIds)
    => /\ status # "raised"
       /\ pc = "idle"
          => /\ status = "returned"
             /\ Commands(log) = OffCommands
             /\ prev_off => Commands(log) = prev_cmds

\* a second async_turn_off in a row has returned, its valve call having failed
C7_Witness ==
    /\ op = "turn_off" /\ prev_off /\ BothIds
    /\ pc = "idle" /\ status = "returned"
    /\ \E i \in 1..Len(log) : log[i] = Ev("valve_ret", 0, "error")

\* the step in which the valve service call of the running handler ends
\* with outcome o
ValveEnds(o) ==
    /\ ValveInFlight
    /\ Len(log') > Len(log)
    /\ log'[Len(log) + 1] = Ev("valve_ret", 0, o)

\* the fan call the handler issues after its valve call, from the state
\* before the valve call ends
FanCallAfterValve ==
    IF pc = "on_valve"
    THEN set_fan_call(calculate_fan_speed(hvac_power_percent).speed)
    ELSE IF pc = "off_valve" THEN set_fan_call(0)
    ELSE set_fan_call(fan_speed)

\* C8: in async_turn_on, async_turn_off and the re-apply of
\* async_control_hvac, a valve call that fails with a transport error is
\* followed in the same invocation by the fan call, with the value it has
\* after a valve call that succeeds.
C8_FanAfterValveFailure ==
    [][\A o \in {"ok", "error"} :
         (ValveEnds(o) /\ fan_entity_id # None)
         => /\ status' # "raised"
            /\ FanInFlight'
            /\ Commands(log') = Commands(log) \o FanCallAfterValve]_vars

\* the valve call of async_turn_on failed and 'set_percentage' was sent
C8_Witness ==
    /\ op = "turn_on"
    /\ \E i \in 1..Len(log) :
         /\ log[i] = Ev("valve_ret", 0, "error")
         /\ \E j \in (i + 1)..Len(log) :
              log[j].e = "fan_cmd" /\ log[j].a = "set_percentage"

\* C9 as stated: a valve call that the framework cancels or times out is
\* followed by the fan call of the same invocation.
C9_CancelProceedsToFan ==
    \A i \in 1..Len(log) :
      (log[i].e = "valve_ret" /\ log[i].a \in {"timeout", "cancelled"}
          /\ fan_entity_id # None)
      => \E j \in (i + 1)..Len(log) : log[j].e = "fan_cmd"

\* C9: a valve call that times out (an Exception) ends that call only and
\* the fan call of the same invocation follows; a cancellation
\* (CancelledError, not an Exception) is not caught: it leaves the handler
\* and no fan call follows.
C9_TimeoutProceedsCancelPropagates ==
    \A i \in 1..Len(log) :
      log[i].e = "valve_ret"
      => /\ (log[i].a = "timeout" /\ fan_entity_id # None)
            => \E j \in (i + 1)..Len(log) : log[j].e = "fan_cmd"
         /\ log[i].a = "cancelled"
            => /\ i = Len(log)
               /\ status = "raised"
               /\ pc = "idle"

\* the valve call of async_turn_on timed out and the fan call was issued
C9_Witness ==
    /\ op = "turn_on"
    /\ \E i \in 1..Len(log) :
         /\ log[i] = Ev("valve_ret", 0, "timeout")
         /\ \E j \in (i + 1)..Len(log) : log[j].e = "fan_cmd"

\* C10: with exactly one of the two ids absent async_turn_on returns at
\* once without raising: no service call, no update_hvac_power.
C10_TurnOnAbortsOnMissingId ==
    (op = "turn_on" /\ (valve_entity_id = None) # (fan_entity_id = None))
    => /\ pc = "idle"
       /\ status = "returned"
       /\ Commands(log) = <<>>
       /\ ~HasEvent(log, "update")
       /\ ~HasEvent(log, "read_power")

\* async_turn_on has returned with a valve and no fan
C10_Witness ==
    /\ op = "turn_on" /\ status = "returned"
    /\ valve_entity_id # None /\ fan_entity_id = None
    /\ log = <<Ev("warning", 0, "Valve or fan entity ID is None")>>

\* the step in which a handler runs _calculate_valve_position: the start of
\* async_turn_on with both ids, or the re-apply of async_control_hvac
ValveComputedStep ==
    \/ pc = "idle" /\ pc' = "on_valve"
    \/ pc = "cc_base" /\ pc' # "cc_base" /\ is_active /\ hvac_mode # "off"

\* C11: in HEAT or COOL with the current or the target temperature
\* unavailable the valve position is the OFF position 55, nothing is
\* interpolated from the power percent, and update_hvac_power is not called.
C11_MissingTempsFallback ==
    [][(ValveComputedStep /\ hvac_mode \in {"heat", "cool"} /\ ~TempsAvailable)
       => /\ valve_position' = 55
          /\ hvac_power_percent' = hvac_power_percent
          /\ ~HasEvent(log', "update")
          /\ \A i \in 1..Len(log') :
               ~(log'[i].e = "read_power" /\ log'[i].a = "valve")
          /\ \A i \in 1..Len(log') :
               log'[i].e = "valve_cmd" => log'[i].v = 55]_vars

\* async_turn_on in HEAT without a current temperature has sent the valve
\* to 55 after reading the temperatures and nothing else
C11_Witness ==
    /\ op = "turn_on" /\ pc = "on_valve"
    /\ hvac_mode = "heat" /\ cur_temp = None
    /\ hvac_power_percent # 0
    /\ log = <<Ev("read_temps", 0, "environment"),
               Ev("valve_cmd", 55, "set_valve_position")>>

\* the step in which the base class's async_control_hvac returns
BaseReturns == pc = "cc_base" /\ pc' # "cc_base"

\* C12: on every control cycle the base class's async_control_hvac is called
\* first, whatever the state; after it returns the device issues its valve
\* and fan calls (to the ids it has) if and only if it is active and the
\* mode is not OFF, and issues no call of its own otherwise.
C12_BaseFirstThenGated ==
    /\ [](op = "control"
          => /\ log[1] = Ev("base_call", 0, "async_control_hvac")
             /\ pc = "cc_base" => Len(log) = 1
             /\ (pc = "idle" /\ HasEvent(log, "valve_cmd") /\ fan_entity_id # None)
                => HasEvent(log, "fan_cmd"))
    /\ [][BaseReturns
          => IF is_active /\ hvac_mode # "off"
             THEN /\ valve_entity_id # None
                     => /\ pc' = "cc_valve"
                        /\ Commands(log') = set_valve_call(valve_position')
                  /\ (valve_entity_id = None /\ fan_entity_id # None)
                     => /\ pc' = "cc_fan"
                        /\ Commands(log') = set_fan_call(fan_speed')
             ELSE /\ Commands(log') = <<>>
                  /\ pc' = "idle"
                  /\ status' = "returned"]_vars

\* a control cycle of an active device has returned: base call, base return,
\* then the valve call and the fan call
C12_Witness ==
    /\ op = "control" /\ pc = "idle" /\ status = "returned" /\ BothIds
    /\ Len(log) >= 2
    /\ log[1] = Ev("base_call", 0, "async_control_hvac")
    /\ log[2] = Ev("base_ret", 0, "ok")
    /\ Len(Commands(log)) = 2

\* the power percent is a whole number of percent in 0..100
WholePercent ==
    hvac_power_percent \in DemandInRange /\ hvac_power_percent % DemandDen = 0
\* that whole number
Percent == hvac_power_percent \div DemandDen

\* C13: the valve position is truncated toward zero, not rounded: for a
\* whole demand d in 0..100 COOL gives trunc(50 - d*30/100) and HEAT gives
\* trunc(60 + d*40/100); COOL at 80 gives valve 26 and fan 80, HEAT at 50
\* gives valve 80 and fan 50.
C13_Truncation ==
    (pc = "mapped" /\ TempsAvailable /\ WholePercent)
    => /\ hvac_mode = "cool"
          => /\ valve_position = (5000 - Percent * 30) \div 100
             /\ Percent = 80
                => valve_position = 26 /\ fan_speed = 80 * DemandDen
       /\ hvac_mode = "heat"
          => /\ valve_position = (6000 + Percent * 40) \div 100
             /\ Percent = 50
                => valve_position = 80 /\ fan_speed = 50 * DemandDen

\* COOL at 81% has been mapped to 25, the truncation of 25.7
C13_Witness ==
    /\ pc = "mapped" /\ TempsAvailable /\ hvac_mode = "cool"
    /\ hvac_power_percent = 81 * DemandDen
    /\ valve_position = 25
    /\ fan_speed = 81 * DemandDen

\* the service calls for the mode, demand, temperatures and ids of the
\* state: the valve call with the computed position, then the fan call with
\* the computed speed, each to the id that is present
CommandsForState ==
    set_valve_call(calculate_valve_position(hvac_power_percent).position)
        \o set_fan_call(calculate_fan_speed(hvac_power_percent).speed)

\* the re-apply of async_control_hvac alone: it issues CommandsForState
\* (holds under SpecSame)
C14_ReapplyIssuesCommandsForState ==
    (op = "control" /\ pc = "idle" /\ status = "returned"
        /\ is_active /\ hvac_mode # "off")
    => Commands(log) = CommandsForState

\* C14: with the same mode, demand, temperatures and ids the re-apply of
\* async_control_hvac and async_turn_on issue exactly the same service
\* calls, also when exactly one of the two ids is absent.
C14_ReapplySameAsTurnOn ==
    (op \in {"control", "turn_on"} /\ pc = "idle" /\ status = "returned"
        /\ is_active /\ hvac_mode # "off")
    => Commands(log) = CommandsForState

\* C15: in async_turn_on and in the re-apply of async_control_hvac, outside
\* OFF, update_hvac_power is called before the power percent is read, for
\* the valve position and for the fan speed alike: no read of the power
\* percent without an update earlier in the same invocation.
C15_UpdateBeforeEveryRead ==
    \A i \in 1..Len(log) :
      log[i].e = "read_power"
      => \E j \in 1..(i - 1) : log[j].e = "update"

\* the service call issued at log[i] has ended by the end of log
Ended(i, ret) == \E k \in (i + 1)..Len(log) : log[k].e = ret

\* C16: within one invocation of async_turn_on, async_turn_off or the
\* re-apply of async_control_hvac the valve call is issued and has ended,
\* well or badly, before the fan call is issued: never both in flight,
\* never the fan first.
C16_ValveEndsBeforeFan ==
    /\ \A j \in 1..Len(log) :
         log[j].e = "fan_cmd"
         => /\ valve_entity_id # None
               => \E i \in 1..(j - 1) :
                    /\ log[i].e = "valve_cmd"
                    /\ \E k \in (i + 1)..(j - 1) : log[k].e = "valve_ret"
            /\ \A i \in (j + 1)..Len(log) : log[i].e # "valve_cmd"
    /\ ~(\E i, j \in 1..Len(log) :
           /\ log[i].e = "valve_cmd" /\ ~Ended(i, "valve_ret")
           /\ log[j].e = "fan_cmd" /\ ~Ended(j, "fan_ret"))
    /\ ValveInFlight
       => \E i \in 1..Len(log) : log[i].e = "valve_cmd" /\ ~Ended(i, "valve_ret")

\* the re-apply of async_control_hvac has its fan call in flight after a
\* valve call that failed
C16_Witness ==
    /\ op = "control" /\ pc = "cc_fan" /\ BothIds
    /\ \E i \in 1..(Len(log) - 2) :
         /\ log[i].e = "valve_cmd"
         /\ log[i + 1] = Ev("valve_ret", 0, "error")
         /\ log[i + 2].e = "fan_cmd"
         /\ Len(log) = i + 2

\* the entries of l that call update_hvac_power
Updates(l) == SelectSeq(l, LAMBDA x : x.e = "update")

\* C17: every async_turn_off calls update_hvac_power exactly once, with
\* HVACAction.OFF, after the valve and the fan part have been attempted,
\* whether or not an id is absent and whether or not a service call failed.
C17_TurnOffNotifiesOnce ==
    op = "turn_off"
    => /\ pc # "idle" => Updates(log) = <<>>
       /\ pc = "idle"
          => /\ status = "returned"
             /\ Updates(log) = <<Ev("update", 0, "off")>>
             /\ log[Len(log)] = Ev("update", 0, "off")
             /\ valve_entity_id # None
                => HasEvent(log, "valve_cmd") /\ HasEvent(log, "valve_ret")
             /\ fan_entity_id # None
                => HasEvent(log, "fan_cmd") /\ HasEvent(log, "fan_ret")

\* async_turn_off without a fan has returned in HEAT while active, its valve
\* call having failed, and has told the power manager OFF
C17_Witness ==
    /\ op = "turn_off" /\ pc = "idle" /\ status = "returned"
    /\ fan_entity_id = None /\ hvac_mode = "heat" /\ is_active
    /\ log = <<Ev("valve_cmd", 55, "set_valve_position"),
               Ev("valve_ret", 0, "error"),
               Ev("update", 0, "off")>>

\* the entries e in l
Count(l, e) == Len(SelectSeq(l, LAMBDA x : x.e = e))

\* C18: _async_set_valve_position and _async_set_fan_speed (called at most
\* once each by a handler) issue at most one service call, none without the
\* id, never a second one after a failure, and return normally whether the
\* service call succeeded or failed.
C18_OneCallNoRetry ==
    /\ Count(log, "valve_cmd") <= 1
    /\ Count(log, "fan_cmd") <= 1
    /\ valve_entity_id = None => Count(log, "valve_cmd") = 0
    /\ fan_entity_id = None => Count(log, "fan_cmd") = 0
    /\ Count(log, "valve_ret") <= Count(log, "valve_cmd")
    /\ Count(log, "fan_ret") <= Count(log, "fan_cmd")
    /\ \A i \in 1..Len(log) :
         /\ log[i].e = "valve_ret"
            => \A k \in (i + 1)..Len(log) : log[k].e # "valve_cmd"
         /\ log[i].e = "fan_ret"
            => \A k \in (i + 1)..Len(log) : log[k].e # "fan_cmd"
    /\ status # "raised"
    /\ (pc = "idle" /\ op # "none") => status = "returned"

\* a control cycle has returned after both of its service calls failed,
\* each issued once
C18_Witness ==
    /\ op = "control" /\ pc = "idle" /\ status = "returned"
    /\ Count(log, "valve_cmd") = 1 /\ Count(log, "fan_cmd") = 1
    /\ \E i \in 1..Len(log) : log[i] = Ev("valve_ret", 0, "error")
    /\ log[Len(log)] = Ev("fan_ret", 0, "error")

\* the first entry of log' that the step of a handler has written
NewFrom == IF pc = "idle" THEN 1 ELSE Len(log) + 1

\* C19: every valve call ever issued carries a position in
\* {55} \cup [20,50] \cup [60,100]; one in [20,50] only when the mode read
\* for its computation is COOL, one in [60,100] only when it is HEAT.
C19_ValvePositionBands ==
    /\ [](\A i \in 1..Len(log) :
            log[i].e = "valve_cmd"
            => log[i].v \in ({55} \cup (20..50) \cup (60..100)))
    /\ [][log' # log
          => \A i \in NewFrom..Len(log') :
               log'[i].e = "valve_cmd"
               => /\ log'[i].v \in 20..50 => hvac_mode = "cool"
                  /\ log'[i].v \in 60..100 => hvac_mode = "heat"]_vars

\* async_turn_on in COOL has sent the valve to a position inside (20,50)
C19_Witness ==
    /\ op = "turn_on" /\ pc = "on_valve" /\ hvac_mode = "cool"
    /\ log[Len(log)].e = "valve_cmd"
    /\ log[Len(log)].v \in 21..49

\* C20: with both entities configured, an invocation that sends the valve
\* to OFF_POSITION sends the fan 'turn_off', never a non-zero
\* 'set_percentage'.  Violated: with a temperature missing in HEAT or COOL,
\* _calculate_valve_position falls back to OFF_POSITION while
\* _calculate_fan_speed still returns the last demand.
C20_FanOffWhenValveOff ==
    (BothIds /\ \E i \in 1..Len(log) :
                  log[i].e = "valve_cmd" /\ log[i].v = OFF_POSITION)
    => \A j \in 1..Len(log) :
         log[j].e = "fan_cmd" => log[j].a = "turn_off"

====
